---- MODULE Spec2Model ----
(***************************************************************************)
(* md2xlsx: Markdown rendered into worksheet cells.                        *)
(*                                                                         *)
(* The module models src/md2xlsx.py: the InlineCollector / BlockCollector  *)
(* accumulators, the Collector that the Markdown processor uses as its     *)
(* placeholder, the ExcelRenderer hooks with the link registry, and the    *)
(* ExcelCollectorRenderer that writes one block per row.                   *)
(*                                                                         *)
(* Python values are modelled as follows.                                  *)
(*  - an optional reference (None or an object) is a sequence of length    *)
(*    at most one: None is <<>>, the object x is <<x>>;                    *)
(*  - an InlineCollector is the sequence of its InlineElements, each a     *)
(*    record [text, markers];                                              *)
(*  - a BlockElement is a mutable object (its styles list is changed in    *)
(*    place by nest), so it lives in the store elems and a BlockCollector  *)
(*    is the sequence of the identities of its elements; merging two       *)
(*    collectors shares the elements, as list += does in Python.           *)
(***************************************************************************)
EXTENDS Integers, Sequences, FiniteSets, TLC

VARIABLES
    elems,      \* store of BlockElement objects: identity -> [content, styles]
    stack,      \* the open placeholders of the running parse, root first
    nones,      \* per open placeholder: a None was appended to it
    cur,        \* the conversion being parsed, 0 when none
    phase,      \* per conversion: "new", "parsing", "parsed", "failed"
    root,       \* per conversion: the Collector the parse returned
    rendererOf, \* per conversion: the ExcelRenderer instance it uses
    links,      \* per ExcelRenderer instance: self.links
    sheet,      \* per conversion: the worksheet its render calls write to
    last,       \* the last operation, its argument, result and outcome
    hist,       \* per conversion: <<target, index>> of every link hook call that returned
    flushes,    \* per conversion: number of terminate calls made for it
    nruns,      \* text runs created so far
    nplace,     \* placeholders requested so far, the roots not counted
    pool,       \* BlockCollector objects held by a client of the class
    nops,       \* operations performed on the objects of pool
    grid,       \* an ExcelCollectorRenderer instance held by a client
    ginit,      \* the row and column that instance was created with
    gsheet,     \* the worksheet that instance writes to
    gcalls,     \* number of render calls made on that instance
    styled,     \* the last create_style call: the style list and what it returned
    nstyled     \* number of create_style calls made by a client

vars == <<elems, stack, nones, cur, phase, root, rendererOf, links, sheet, last,
          hist, flushes, nruns, nplace, pool, nops, grid, ginit, gsheet, gcalls,
          styled, nstyled>>

protoVars == <<stack, nones, cur, phase, root, rendererOf, links, sheet,
               hist, flushes, nruns, nplace>>
poolVars == <<pool, nops>>
gridVars == <<grid, ginit, gsheet, gcalls, styled, nstyled>>

----------------------------------------------------------------------------
(* Bounds *)

MaxRuns == 3        \* text runs created over all conversions
MaxPlace == 2       \* placeholders requested below the roots, over all conversions
MaxLinks == 2       \* link hook calls per conversion
MaxLinkRuns == 2    \* text runs of the documents with links
MaxRenders == 2     \* render calls per conversion
MaxPool == 2        \* free-standing BlockCollectors
MaxPoolOps == 4     \* BlockCollector operations performed
MaxGridCalls == 3   \* render calls on one ExcelCollectorRenderer
MaxGridLen == 2     \* blocks handed to one such render call
MaxStart == 2       \* start row and column of the renderer
MaxStyles == 3      \* length of a style list handed to create_style
MaxStyleCalls == 2  \* create_style calls made by a client

Convs == {1, 2}
Renderers == {1, 2}
Targets == {"x", "y"}
\* the header levels drawn for the header hook
Levels == {1, 2}

----------------------------------------------------------------------------
(* Optional references *)

None == <<>>
Some(x) == <<x>>
IsNone(o) == o = <<>>
Get(o) == o[1]

----------------------------------------------------------------------------
(* InlineCollector *)

InlineElement(text) == [text |-> text, markers |-> {}]

\* InlineCollector(text): one element with an empty marker set
InlineCollector(text) == <<InlineElement(text)>>

\* InlineCollector.append
inline_append(ic, text) == Append(ic, InlineElement(text))

\* InlineCollector.__iadd__
inline_iadd(ic, bucket) == ic \o bucket

\* InlineCollector.apply_marker
apply_marker(ic, marker) ==
    [k \in DOMAIN ic |-> [ic[k] EXCEPT !.markers = @ \cup {marker}]]

----------------------------------------------------------------------------
(* BlockCollector *)

\* BlockCollector.append: a new BlockElement with an empty styles list; the
\* result is the collector and the store after the call
block_append(els, bc, content) ==
    [bc |-> Append(bc, Len(els) + 1),
     elems |-> Append(els, [content |-> content, styles |-> <<>>])]

\* BlockCollector(content): content is an optional InlineCollector, None
\* appends nothing
BlockCollector(els, content) ==
    IF IsNone(content)
    THEN [bc |-> <<>>, elems |-> els]
    ELSE block_append(els, <<>>, Get(content))

\* BlockCollector.__iadd__: the elements of other are shared, not copied
block_iadd(bc, other) == bc \o other

\* one pass of the loop of nest, from position k on: insert(0, style) on the
\* styles list of the element at each position (an element held twice is
\* visited twice)
RECURSIVE nest_from(_, _, _, _)
nest_from(els, bc, style, k) ==
    IF k > Len(bc) THEN els
    ELSE nest_from([els EXCEPT ![bc[k]].styles = <<style>> \o @],
                   bc, style, k + 1)

\* BlockCollector.nest: the store after the call (the collector is unchanged)
nest(els, bc, style) == nest_from(els, bc, style, 1)

\* the blocks of a collector by value
Blocks(els, bc) == [k \in DOMAIN bc |-> els[bc[k]]]

----------------------------------------------------------------------------
(* Values handed to Collector.__iadd__ and returned by the renderer hooks *)

VBlock(bc) == [kind |-> "block", bc |-> bc, ic |-> <<>>, inline |-> None, block |-> None]
VInline(ic) == [kind |-> "inline", bc |-> <<>>, ic |-> ic, inline |-> None, block |-> None]
VCollector(c) == [kind |-> "collector", bc |-> <<>>, ic |-> <<>>, inline |-> c.inline, block |-> c.block]
VNone == [kind |-> "none", bc |-> <<>>, ic |-> <<>>, inline |-> None, block |-> None]
\* a value of any other type, such as a str
VOther == [kind |-> "other", bc |-> <<>>, ic |-> <<>>, inline |-> None, block |-> None]

\* an optional InlineCollector as a value (None stays None)
VOptInline(o) == IF IsNone(o) THEN VNone ELSE VInline(Get(o))

----------------------------------------------------------------------------
(* Collector *)

\* Collector.__init__
NewCollector == [inline |-> None, block |-> None]

\* _add_block that leaves the wrapped inline pending as well
add_block_keeps_inline(c, els, block_collector) ==
    IF IsNone(c.block)
    THEN IF ~IsNone(c.inline)
         THEN LET b == BlockCollector(els, c.inline)
              IN  [c |-> [inline |-> c.inline,
                          block |-> Some(block_iadd(b.bc, block_collector))],
                   elems |-> b.elems]
         ELSE [c |-> [c EXCEPT !.block = Some(block_iadd(<<>>, block_collector))],
               elems |-> els]
    ELSE [c |-> [c EXCEPT !.block = Some(block_iadd(Get(c.block), block_collector))],
          elems |-> els]

\* Collector._add_block: the collector and the store after the call
add_block(c, els, block_collector) ==
    IF IsNone(c.block)
    THEN IF ~IsNone(c.inline)
         THEN LET b == BlockCollector(els, c.inline)
              IN  [c |-> [inline |-> None,
                          block |-> Some(block_iadd(b.bc, block_collector))],
                   elems |-> b.elems]
         ELSE [c |-> [c EXCEPT !.block = Some(block_iadd(<<>>, block_collector))],
               elems |-> els]
    ELSE [c |-> [c EXCEPT !.block = Some(block_iadd(Get(c.block), block_collector))],
          elems |-> els]

\* Collector._add_inline
add_inline(c, inline_collector) ==
    IF IsNone(c.inline)
    THEN [c EXCEPT !.inline = Some(inline_collector)]
    ELSE [c EXCEPT !.inline = Some(inline_iadd(Get(c.inline), inline_collector))]

\* the Collector branch without the promotion of the trailing inline
add_collector_drops_inline(c, els, inl, blk) ==
    IF ~IsNone(blk)
    THEN add_block(c, els, Get(blk))
    ELSE IF IsNone(inl)
         THEN [c |-> c, elems |-> els]
         ELSE [c |-> add_inline(c, Get(inl)), elems |-> els]

\* the Collector branch of Collector.__iadd__
add_collector(c, els, inl, blk) ==
    IF ~IsNone(blk)
    THEN LET r1 == add_block(c, els, Get(blk))
         IN  IF ~IsNone(inl)
             THEN LET nb == BlockCollector(r1.elems, inl)
                  IN  add_block(r1.c, nb.elems, nb.bc)
             ELSE r1
    ELSE IF IsNone(inl)
         THEN [c |-> c, elems |-> els]
         ELSE [c |-> add_inline(c, Get(inl)), elems |-> els]

\* __iadd__ whose last branch passes instead of raising
iadd_drops_other(c, els, v) ==
    CASE v.kind = "block" ->
            add_block(c, els, v.bc) @@ [err |-> "none"]
      [] v.kind = "inline" ->
            [c |-> add_inline(c, v.ic), elems |-> els, err |-> "none"]
      [] v.kind = "collector" ->
            add_collector(c, els, v.inline, v.block) @@ [err |-> "none"]
      [] OTHER ->
            [c |-> c, elems |-> els, err |-> "none"]

\* Collector.__iadd__: the collector, the store and the exception raised
iadd(c, els, v) ==
    CASE v.kind = "block" ->
            add_block(c, els, v.bc) @@ [err |-> "none"]
      [] v.kind = "inline" ->
            [c |-> add_inline(c, v.ic), elems |-> els, err |-> "none"]
      [] v.kind = "collector" ->
            add_collector(c, els, v.inline, v.block) @@ [err |-> "none"]
      [] v.kind = "none" ->
            [c |-> c, elems |-> els, err |-> "none"]
      [] OTHER ->
            [c |-> c, elems |-> els, err |-> "RuntimeError"]

----------------------------------------------------------------------------
(* ExcelRenderer: block hooks *)

\* ExcelRenderer._get_block: an optional BlockCollector and the store
get_block(els, bucket) ==
    IF ~IsNone(bucket.inline)
    THEN LET b == BlockCollector(els, bucket.inline)
         IN  [ret |-> Some(b.bc), elems |-> b.elems]
    ELSE [ret |-> bucket.block, elems |-> els]

\* self._get_block(bucket).nest(style): calling nest on None raises
block_hook(els, bucket, style) ==
    LET g == get_block(els, bucket)
    IN  IF IsNone(g.ret)
        THEN [v |-> VNone, elems |-> g.elems, err |-> "AttributeError"]
        ELSE [v |-> VBlock(Get(g.ret)),
              elems |-> nest(g.elems, Get(g.ret), style),
              err |-> "none"]

block_code(els, code) == block_hook(els, code, "code")
block_quote(els, text) == block_hook(els, text, "quote")
header(els, text, level) == block_hook(els, text, "h" \o ToString(level))
list(els, body) == block_hook(els, body, "list")
list_item(els, text) == block_hook(els, text, "list_item")
paragraph(els, text) == block_hook(els, text, "paragraph")

\* ExcelRenderer.hrule
hrule(els) ==
    LET b == BlockCollector(els, Some(InlineCollector("")))
    IN  [v |-> VBlock(b.bc), elems |-> nest(b.elems, b.bc, "hrule"), err |-> "none"]

\* block_html, table, table_row, table_cell, image, newline
Unsupported == {"block_html", "table", "table_row", "table_cell", "image", "newline"}
unsupported(hook) == VNone

----------------------------------------------------------------------------
(* ExcelRenderer: inline hooks; each returns [v, err] *)

\* calling a method on None raises AttributeError
Raised == [v |-> VNone, err |-> "AttributeError"]
Returned(v) == [v |-> v, err |-> "none"]

\* link.inline.apply_marker("l")
autolink(link) ==
    IF IsNone(link.inline) THEN Raised
    ELSE Returned(VInline(apply_marker(Get(link.inline), "l")))

\* InlineCollector(text).apply_marker("c")
codespan(text) == Returned(VInline(apply_marker(InlineCollector(text), "c")))

\* text.inline.apply_marker("i").apply_marker("b")
double_emphasis(text) ==
    IF IsNone(text.inline) THEN Raised
    ELSE Returned(VInline(apply_marker(apply_marker(Get(text.inline), "i"), "b")))

\* text.inline.apply_marker("i")
emphasis(text) ==
    IF IsNone(text.inline) THEN Raised
    ELSE Returned(VInline(apply_marker(Get(text.inline), "i")))

\* InlineCollector("\n")
linebreak == Returned(VInline(InlineCollector("\n")))

\* text.inline.apply_marker("s")
strikethrough(text) ==
    IF IsNone(text.inline) THEN Raised
    ELSE Returned(VInline(apply_marker(Get(text.inline), "s")))

\* ExcelRenderer.text: InlineCollector(text)
text_hook(text) == Returned(VInline(InlineCollector(text)))

\* ExcelRenderer.inline_html: text.inline, which may be None
inline_html(text) == Returned(VOptInline(text.inline))

----------------------------------------------------------------------------
(* The link registry: openpyxl's IndexedList as self.links *)

InList(l, x) == \E i \in DOMAIN l : l[i] = x
\* IndexedList.add: appends the value unless it is held already
links_add(l, x) == IF InList(l, x) THEN l ELSE Append(l, x)
\* IndexedList.index: 0-based position
links_index(l, x) == (CHOOSE i \in DOMAIN l : l[i] = x) - 1

\* ExcelRenderer.link: the registry is updated before content.inline is used
link(lks, target, content) ==
    LET l2 == links_add(lks, target)
        idx == links_index(l2, target) + 1
    IN  IF IsNone(content.inline)
        THEN [v |-> VNone, links |-> l2, idx |-> idx, err |-> "AttributeError"]
        ELSE [v |-> VInline(inline_append(apply_marker(Get(content.inline), "l"),
                                          "[" \o ToString(idx) \o "]")),
              links |-> l2, idx |-> idx, err |-> "none"]

\* the loop of terminate from index idx on: one block per link
RECURSIVE terminate_from(_, _, _, _)
terminate_from(c, els, lks, idx) ==
    IF idx > Len(lks) THEN [c |-> c, elems |-> els]
    ELSE LET content == inline_iadd(InlineCollector("[" \o ToString(idx) \o "] "),
                                    apply_marker(InlineCollector(lks[idx]), "l"))
             b == BlockCollector(els, Some(content))
             r == add_block(c, nest(b.elems, b.bc, "link"), b.bc)
         IN  terminate_from(r.c, r.elems, lks, idx + 1)

\* terminate without "self.links = IndexedList()"
terminate_keeps_links(els, lks) ==
    IF Len(lks) > 0
    THEN LET b == BlockCollector(els, Some(InlineCollector("")))
             r == add_block(NewCollector, b.elems, b.bc)
         IN  terminate_from(r.c, r.elems, lks, 1) @@ [links |-> lks]
    ELSE [c |-> NewCollector, elems |-> els, links |-> lks]

\* ExcelRenderer.terminate: the Collector returned, the store, the registry
terminate(els, lks) ==
    IF Len(lks) > 0
    THEN LET b == BlockCollector(els, Some(InlineCollector("")))
             r == add_block(NewCollector, b.elems, b.bc)
         IN  terminate_from(r.c, r.elems, lks, 1) @@ [links |-> <<>>]
    ELSE [c |-> NewCollector, elems |-> els, links |-> lks]

----------------------------------------------------------------------------
(* ExcelCollectorRenderer *)

\* FT_HEADER1 .. FT_HEADER6
HeaderFont(size) ==
    [name |-> "Calibri", sz |-> size, family |-> 2, b |-> FALSE, i |-> FALSE,
     color |-> "theme1", u |-> "None", strike |-> "None"]

HeaderStyles == {"h1", "h2", "h3", "h4", "h5", "h6"}

\* ExcelCollectorRenderer.FONTS
FONTS(style) ==
    CASE style = "h1" -> HeaderFont(26)
      [] style = "h2" -> HeaderFont(22)
      [] style = "h3" -> HeaderFont(18)
      [] style = "h4" -> HeaderFont(16)
      [] style = "h5" -> HeaderFont(14)
      [] style = "h6" -> HeaderFont(12)

FILL_QUOTE == [fill_type |-> "solid", color |-> "FFA09BBB"]
FILL_HRULE == [fill_type |-> "solid", color |-> "FF000000"]

\* ExcelCollectorRenderer.create_font: an optional Font
create_font(markers) ==
    IF Cardinality(markers) = 0
    THEN None
    ELSE Some([name |-> IF "c" \in markers THEN "Consolas" ELSE "Calibri",
               sz |-> 11,
               family |-> IF "c" \in markers THEN 3 ELSE 2,
               b |-> "b" \in markers,
               i |-> "i" \in markers,
               color |-> IF "l" \in markers THEN "FF382DA0" ELSE "theme1",
               u |-> IF "l" \in markers THEN "single" ELSE "None",
               strike |-> IF "s" \in markers THEN "True" ELSE "None"])

\* the iteration with a font that is set only once
style_step_first_font(acc, style) ==
    IF style \in HeaderStyles
    THEN [acc EXCEPT !.font = IF IsNone(@) THEN Some(FONTS(style)) ELSE @]
    ELSE IF style \in {"list", "link"}
    THEN [acc EXCEPT !.alignment =
             Some([indent |-> (IF IsNone(@) THEN 0 ELSE Get(@).indent) + 2])]
    ELSE IF style = "quote"
    THEN [acc EXCEPT !.alignment =
             Some([indent |-> (IF IsNone(@) THEN 0 ELSE Get(@).indent) + 2]),
                     !.fill = IF IsNone(@) THEN Some(FILL_QUOTE) ELSE @]
    ELSE acc

\* one iteration of the loop of create_style over the style list
style_step(acc, style) ==
    IF style \in HeaderStyles
    THEN [acc EXCEPT !.font = Some(FONTS(style))]
    ELSE IF style \in {"list", "link"}
    THEN [acc EXCEPT !.alignment =
             Some([indent |-> (IF IsNone(@) THEN 0 ELSE Get(@).indent) + 2])]
    ELSE IF style = "quote"
    THEN [acc EXCEPT !.alignment =
             Some([indent |-> (IF IsNone(@) THEN 0 ELSE Get(@).indent) + 2]),
                     !.fill = IF IsNone(@) THEN Some(FILL_QUOTE) ELSE @]
    ELSE acc

RECURSIVE create_style_from(_, _, _)
create_style_from(acc, styles, k) ==
    IF k > Len(styles) THEN acc
    ELSE create_style_from(style_step(acc, styles[k]), styles, k + 1)

\* ExcelCollectorRenderer.create_style: optional font, alignment and fill
create_style(styles) ==
    create_style_from([font |-> None, alignment |-> None, fill |-> None], styles, 1)

\* a worksheet: its cells by <<row, column>> and the cell(row, column) calls made
NewWorksheet == [cells |-> <<>>, calls |-> <<>>]

\* a cell of the worksheet before anything is set on it
NewCell == [rich_text |-> <<>>, font |-> None, alignment |-> None, fill |-> None]

\* ExcelCollectorRenderer.prepare_cell: rich_text is cleared, a bullet is put first
prepare_cell(cell, content, styles) ==
    [cell EXCEPT !.rich_text =
        IF \E k \in DOMAIN styles : styles[k] = "list_item"
        THEN <<[text |-> "bullet", font |-> None]>>
        ELSE <<>>]

\* ExcelCollectorRenderer.fill_content: one rich-text run per element
fill_content(cell, content) ==
    [cell EXCEPT !.rich_text =
        @ \o [k \in DOMAIN content |->
                [text |-> content[k].text, font |-> create_font(content[k].markers)]]]

\* ExcelCollectorRenderer.do_cell: an attribute is set only when it is not None
do_cell(cell, block) ==
    LET c1 == fill_content(prepare_cell(cell, block.content, block.styles),
                           block.content)
        st == create_style(block.styles)
    IN  [c1 EXCEPT !.font = IF IsNone(st.font) THEN @ ELSE st.font,
                   !.alignment = IF IsNone(st.alignment) THEN @ ELSE st.alignment,
                   !.fill = IF IsNone(st.fill) THEN @ ELSE st.fill]

\* worksheet.cell(row, column): the cell there, created when missing
ws_cell(ws, row, col) ==
    IF <<row, col>> \in DOMAIN ws.cells THEN ws.cells[<<row, col>>] ELSE NewCell

\* the worksheet after cell(row, column) was called and the cell was set to cell
ws_put(ws, row, col, cell) ==
    [cells |-> [p \in DOMAIN ws.cells \cup {<<row, col>>} |->
                   IF p = <<row, col>> THEN cell ELSE ws.cells[p]],
     calls |-> Append(ws.calls, <<row, col>>)]

\* ExcelCollectorRenderer.__init__: row is the next value of itertools.count
NewGrid(row, col) == [row |-> row, col |-> col]

\* the loop "for row, block in zip(self.row, block_collector)": zip takes the
\* next row first and the next block second, so the row is taken from the
\* counter also in the round that finds the blocks exhausted
RECURSIVE grid_render_from(_, _, _, _)
grid_render_from(g, ws, blocks, k) ==
    LET row == g.row
        g2 == [g EXCEPT !.row = @ + 1]
    IN  IF k > Len(blocks)
        THEN [grid |-> g2, sheet |-> ws]
        ELSE grid_render_from(
                 g2, ws_put(ws, row, g.col, do_cell(ws_cell(ws, row, g.col), blocks[k])),
                 blocks, k + 1)

\* ExcelCollectorRenderer.render: the instance and the worksheet after the call
grid_render(g, ws, blocks) == grid_render_from(g, ws, blocks, 1)

----------------------------------------------------------------------------
(* Collector.render *)

\* the wrap without "self.inline = None"
render_wrap_keeps_inline(c, els) ==
    IF IsNone(c.block)
    THEN LET b == BlockCollector(els, c.inline)
         IN  [c |-> [inline |-> c.inline, block |-> Some(b.bc)], elems |-> b.elems]
    ELSE [c |-> c, elems |-> els]

\* the wrap of a collector that holds no block: BlockCollector(self.inline)
render_wrap(c, els) ==
    IF IsNone(c.block)
    THEN LET b == BlockCollector(els, c.inline)
         IN  [c |-> [inline |-> None, block |-> Some(b.bc)], elems |-> b.elems]
    ELSE [c |-> c, elems |-> els]

\* Collector.render: wrap, self += self.renderer.terminate(), renderer.render
render(c, els, lks, ws, row, col) ==
    LET renderer == NewGrid(row, col)
        w == render_wrap(c, els)
        t == terminate(w.elems, lks)
        r == iadd(w.c, t.elems, VCollector(t.c))
        out == grid_render(renderer, ws, Blocks(r.elems, Get(r.c.block)))
    IN  [c |-> r.c, elems |-> r.elems, links |-> t.links, sheet |-> out.sheet,
         flushed |-> t.c, handed |-> Get(r.c.block)]

----------------------------------------------------------------------------
(* The Markdown processor driving the renderer.                            *)
(*                                                                         *)
(* mistune requests a placeholder for each construct it opens, appends to  *)
(* the innermost open placeholder what the hooks return, and hands a       *)
(* finished placeholder to exactly one hook (or appends it as it is).      *)
(* stack holds the open placeholders of the running parse.                 *)

\* The record of an operation: the hook or step, its conversion, the
\* placeholder handed to it (arg) and whether that one had received a None
\* (dropped), the value returned (v), the collector appended to before and
\* after (target, after), the exception raised (err), and the link registry
\* of the conversion's renderer before the operation (reg).
Op(op, conv, arg, dropped, v, target, after, err) ==
    [op |-> op, conv |-> conv, arg |-> arg, dropped |-> dropped, v |-> v,
     target |-> target, after |-> after, err |-> err,
     reg |-> IF conv = 0 THEN <<>> ELSE links[rendererOf[conv]]]

NoOp == Op("init", 0, NewCollector, FALSE, VNone, NewCollector, NewCollector, "none")

Top(st) == st[Len(st)]
Below(st) == SubSeq(st, 1, Len(st) - 1)

\* "base[-1] += v" for the value v a hook returned with store els, or the
\* exception err the hook raised; an exception ends the conversion
Deliver(op, arg, dropped, v, els, err, base, flags) ==
    LET r == iadd(Top(base), els, v)
        e == IF err # "none" THEN err ELSE r.err
    IN  /\ last' = Op(op, cur, arg, dropped, v, Top(base),
                      IF err # "none" THEN Top(base) ELSE r.c, e)
        /\ IF e = "none"
           THEN /\ stack' = [base EXCEPT ![Len(base)] = r.c]
                /\ nones' = [flags EXCEPT ![Len(base)] = @ \/ v.kind = "none"]
                /\ elems' = r.elems
                /\ UNCHANGED <<cur, phase>>
           ELSE /\ stack' = <<>>
                /\ nones' = <<>>
                /\ elems' = els
                /\ cur' = 0
                /\ phase' = [phase EXCEPT ![cur] = "failed"]

\* Markdown.__call__ starts: the root placeholder is requested
Begin(conv) ==
    /\ cur = 0
    /\ phase[conv] = "new"
    /\ \A c \in Convs : c < conv => phase[c] # "new"
    /\ cur' = conv
    /\ phase' = [phase EXCEPT ![conv] = "parsing"]
    /\ stack' = <<NewCollector>>
    /\ nones' = <<FALSE>>
    /\ last' = Op("begin", conv, NewCollector, FALSE, VNone, NewCollector, NewCollector, "none")
    /\ UNCHANGED <<elems, root, rendererOf, links, sheet, hist, flushes, nruns, nplace>>
    /\ UNCHANGED <<poolVars, gridVars>>

\* ExcelRenderer.placeholder
Placeholder ==
    /\ cur # 0
    /\ nplace < MaxPlace
    /\ stack' = Append(stack, NewCollector)
    /\ nones' = Append(nones, FALSE)
    /\ nplace' = nplace + 1
    /\ last' = Op("placeholder", cur, NewCollector, FALSE, VNone, NewCollector, NewCollector, "none")
    /\ UNCHANGED <<elems, cur, phase, root, rendererOf, links, sheet, hist, flushes, nruns>>
    /\ UNCHANGED <<poolVars, gridVars>>

\* what a hook step leaves alone
HookFrame ==
    /\ UNCHANGED <<root, rendererOf, links, sheet, hist, flushes, nplace>>
    /\ UNCHANGED <<poolVars, gridVars>>

\* the text of the next run of the document
NextText == "t" \o ToString(nruns + 1)

\* an inline hook that takes a string: the result goes to the open placeholder
LeafHook(op, h) ==
    /\ cur # 0
    /\ nruns < MaxRuns
    /\ nruns' = nruns + 1
    /\ Deliver(op, NewCollector, FALSE, h.v, elems, h.err, stack, nones)
    /\ HookFrame

Text == LeafHook("text", text_hook(NextText))
Codespan == LeafHook("codespan", codespan(NextText))
Linebreak == LeafHook("linebreak", linebreak)

\* a hook that takes the finished innermost placeholder
BucketHook(op, h) ==
    /\ cur # 0
    /\ Len(stack) >= 2
    /\ Deliver(op, Top(stack), Top(nones), h.v, h.elems, h.err, Below(stack), Below(nones))
    /\ UNCHANGED nruns
    /\ HookFrame

InlineBucketHook(op, h) == BucketHook(op, h @@ [elems |-> elems])

Emphasis == InlineBucketHook("emphasis", emphasis(Top(stack)))
DoubleEmphasis == InlineBucketHook("double_emphasis", double_emphasis(Top(stack)))
Strikethrough == InlineBucketHook("strikethrough", strikethrough(Top(stack)))
Autolink == InlineBucketHook("autolink", autolink(Top(stack)))
InlineHtml == InlineBucketHook("inline_html", inline_html(Top(stack)))

Paragraph == BucketHook("paragraph", paragraph(elems, Top(stack)))
BlockQuote == BucketHook("block_quote", block_quote(elems, Top(stack)))
BlockCode == BucketHook("block_code", block_code(elems, Top(stack)))
List == BucketHook("list", list(elems, Top(stack)))
ListItem == BucketHook("list_item", list_item(elems, Top(stack)))
Header == \E level \in Levels :
    BucketHook("header", header(elems, Top(stack), level))

\* the finished placeholder is appended as it is (Collector += Collector)
Merge ==
    BucketHook("merge", [v |-> VCollector(Top(stack)), elems |-> elems, err |-> "none"])

Hrule ==
    /\ cur # 0
    /\ nruns < MaxRuns
    /\ nruns' = nruns + 1
    /\ LET h == hrule(elems)
       IN  Deliver("hrule", NewCollector, FALSE, h.v, h.elems, h.err, stack, nones)
    /\ HookFrame

\* a hook of an unsupported construct: its None is appended
UnsupportedHook ==
    /\ cur # 0
    /\ \E hook \in Unsupported :
          Deliver("unsupported", NewCollector, FALSE, unsupported(hook), elems, "none",
                  stack, nones)
    /\ UNCHANGED nruns
    /\ HookFrame

\* a value of another type is appended
AppendOther ==
    /\ cur # 0
    /\ Deliver("other", NewCollector, FALSE, VOther, elems, "none", stack, nones)
    /\ UNCHANGED nruns
    /\ HookFrame

\* ExcelRenderer.link on the finished innermost placeholder
Link ==
    /\ cur # 0
    /\ Len(stack) >= 2
    /\ Len(hist[cur]) < MaxLinks
    /\ \E target \in Targets :
          LET h == link(links[rendererOf[cur]], target, Top(stack))
          IN  /\ links' = [links EXCEPT ![rendererOf[cur]] = h.links]
              /\ hist' = [hist EXCEPT ![cur] =
                             IF h.err = "none" THEN Append(@, <<target, h.idx>>) ELSE @]
              /\ Deliver("link", Top(stack), Top(nones), h.v, elems, h.err,
                         Below(stack), Below(nones))
    /\ UNCHANGED <<root, rendererOf, sheet, flushes, nruns, nplace>>
    /\ UNCHANGED <<poolVars, gridVars>>

\* Markdown.__call__ returns the root placeholder
Finish ==
    /\ cur # 0
    /\ Len(stack) = 1
    /\ root' = [root EXCEPT ![cur] = stack[1]]
    /\ phase' = [phase EXCEPT ![cur] = "parsed"]
    /\ cur' = 0
    /\ stack' = <<>>
    /\ nones' = <<>>
    /\ last' = Op("finish", cur, stack[1], nones[1], VNone, stack[1], stack[1], "none")
    /\ UNCHANGED <<elems, rendererOf, links, sheet, hist, flushes, nruns, nplace>>
    /\ UNCHANGED <<poolVars, gridVars>>

\* Collector.render(worksheet) on the Collector a conversion returned.
\* In last, v.block is what terminate returned and v.bc the block list that
\* was handed to the ExcelCollectorRenderer.
Render(conv) ==
    /\ cur = 0
    /\ phase[conv] = "parsed"
    /\ flushes[conv] < MaxRenders
    /\ LET r == render(root[conv], elems, links[rendererOf[conv]], sheet[conv], 1, 1)
       IN  /\ root' = [root EXCEPT ![conv] = r.c]
           /\ elems' = r.elems
           /\ links' = [links EXCEPT ![rendererOf[conv]] = r.links]
           /\ sheet' = [sheet EXCEPT ![conv] = r.sheet]
           /\ last' = Op("render", conv, root[conv], FALSE,
                         [VCollector(r.flushed) EXCEPT !.bc = r.handed],
                         root[conv], r.c, "none")
    /\ flushes' = [flushes EXCEPT ![conv] = @ + 1]
    /\ UNCHANGED <<stack, nones, cur, phase, rendererOf, hist, nruns, nplace>>
    /\ UNCHANGED <<poolVars, gridVars>>

----------------------------------------------------------------------------
(* Initial states *)

ProtoInit ==
    /\ stack = <<>>
    /\ nones = <<>>
    /\ cur = 0
    /\ phase = [c \in Convs |-> "new"]
    /\ root = [c \in Convs |-> NewCollector]
    /\ links = [r \in Renderers |-> <<>>]
    /\ sheet = [c \in Convs |-> NewWorksheet]
    /\ hist = [c \in Convs |-> <<>>]
    /\ flushes = [c \in Convs |-> 0]
    /\ nruns = 0
    /\ nplace = 0

PoolInit == pool = <<>> /\ nops = 0

\* no create_style call was made yet
StyleInit ==
    /\ styled = [styles |-> <<>>, font |-> None, alignment |-> None, fill |-> None]
    /\ nstyled = 0

GridInit ==
    /\ grid = NewGrid(1, 1)
    /\ ginit = <<1, 1>>
    /\ gsheet = NewWorksheet
    /\ gcalls = 0
    /\ StyleInit

\* convert() makes an ExcelRenderer for each conversion
OwnRenderers == [c \in Convs |-> c]
\* a Markdown object, with its renderer, used for every conversion
OneRenderer == [c \in Convs |-> 1]

(* Documents of block constructs, one conversion *)
Init ==
    /\ elems = <<>>
    /\ rendererOf = OwnRenderers
    /\ last = NoOp
    /\ ProtoInit /\ PoolInit /\ GridInit

Next ==
    \/ Begin(1)
    \/ Placeholder
    \/ Text
    \/ Paragraph
    \/ BlockQuote
    \/ BlockCode
    \/ List
    \/ ListItem
    \/ Header
    \/ Hrule
    \/ Merge
    \/ UnsupportedHook
    \/ AppendOther
    \/ Finish
    \/ Render(1)

Spec == Init /\ [][Next]_vars

(* Documents of inline constructs in paragraphs, one conversion *)
InlineNext ==
    \/ Begin(1)
    \/ Placeholder
    \/ Text
    \/ Codespan
    \/ Linebreak
    \/ Emphasis
    \/ DoubleEmphasis
    \/ Strikethrough
    \/ Autolink
    \/ InlineHtml
    \/ Paragraph
    \/ Finish
    \/ Render(1)

SpecInline == Init /\ [][InlineNext]_vars

(* Documents of text and links, two conversions that use one ExcelRenderer *)
(* each or share one                                                       *)
LinksInit ==
    /\ elems = <<>>
    /\ rendererOf \in {OwnRenderers, OneRenderer}
    /\ last = NoOp
    /\ ProtoInit /\ PoolInit /\ GridInit

LinksNext ==
    \/ \E conv \in Convs : Begin(conv)
    \/ Placeholder
    \/ (nruns < MaxLinkRuns /\ Text)
    \/ Link
    \/ Paragraph
    \/ Finish
    \/ \E conv \in Convs : Render(conv)

SpecLinks == LinksInit /\ [][LinksNext]_vars

(* Documents whose chunks reach the Collector in every way __iadd__ tells *)
(* apart: inline and block results, placeholders appended as they are,    *)
(* None and values of another type; one conversion                        *)
CollectorNext ==
    \/ Begin(1)
    \/ Placeholder
    \/ Text
    \/ Hrule
    \/ Paragraph
    \/ Merge
    \/ UnsupportedHook
    \/ AppendOther
    \/ Finish
    \/ Render(1)

SpecCollector == Init /\ [][CollectorNext]_vars

----------------------------------------------------------------------------
(* A client of the BlockCollector class: collectors are made, appended to, *)
(* merged and nested in any order.                                         *)

PoolStyles == {"quote", "list", "list_item"}

PoolOp(op, i, style, before, prev) ==
    [op |-> op, i |-> i, style |-> style, before |-> before, pool |-> pool,
     prev |-> prev]

PoolNoOp == [op |-> "init", i |-> 0, style |-> "", before |-> <<>>, pool |-> <<>>,
             prev |-> [op |-> "init", i |-> 0, style |-> "", before |-> <<>>]]

\* what the last operation was, without what preceded it
Prev == [op |-> last.op, i |-> last.i, style |-> last.style, before |-> last.before]

PoolFrame ==
    /\ nops < MaxPoolOps
    /\ nops' = nops + 1
    /\ UNCHANGED <<protoVars, gridVars>>

\* BlockCollector() and BlockCollector(content)
PoolNew ==
    /\ Len(pool) < MaxPool
    /\ \E content \in {None, Some(InlineCollector("p" \o ToString(Len(elems) + 1)))} :
          LET b == BlockCollector(elems, content)
          IN  /\ pool' = Append(pool, b.bc)
              /\ elems' = b.elems
    /\ last' = PoolOp("new", Len(pool) + 1, "", elems, Prev)
    /\ PoolFrame

\* collector.append(content)
PoolAppend ==
    /\ \E i \in DOMAIN pool :
          LET b == block_append(elems, pool[i],
                                InlineCollector("p" \o ToString(Len(elems) + 1)))
          IN  /\ pool' = [pool EXCEPT ![i] = b.bc]
              /\ elems' = b.elems
              /\ last' = PoolOp("append", i, "", elems, Prev)
    /\ PoolFrame

\* collector += other
PoolMerge ==
    /\ \E i, j \in DOMAIN pool :
          /\ pool' = [pool EXCEPT ![i] = block_iadd(pool[i], pool[j])]
          /\ last' = PoolOp("merge", i, "", elems, Prev)
    /\ UNCHANGED elems
    /\ PoolFrame

\* collector.nest(style)
PoolNest ==
    /\ \E i \in DOMAIN pool, style \in PoolStyles :
          /\ elems' = nest(elems, pool[i], style)
          /\ last' = PoolOp("nest", i, style, elems, Prev)
    /\ UNCHANGED pool
    /\ PoolFrame

BlocksInit ==
    /\ elems = <<>>
    /\ rendererOf = OwnRenderers
    /\ last = PoolNoOp
    /\ ProtoInit /\ PoolInit /\ GridInit

BlocksNext == PoolNew \/ PoolAppend \/ PoolMerge \/ PoolNest

SpecBlocks == BlocksInit /\ [][BlocksNext]_vars

----------------------------------------------------------------------------
(* A client of the ExcelCollectorRenderer class: one instance, created at  *)
(* some row and column, renders one block list after the other.            *)

GridBlocks ==
    {[content |-> InlineCollector("p"), styles |-> <<"paragraph">>],
     [content |-> InlineCollector("q"), styles |-> <<"list", "list_item">>]}

\* the block lists of length n
GridLists(n) == [1..n -> GridBlocks]

GridStart ==
    /\ \E row, col \in 1..MaxStart :
          /\ grid = NewGrid(row, col)
          /\ ginit = <<row, col>>
    /\ gsheet = NewWorksheet
    /\ gcalls = 0
    /\ StyleInit

GridRender ==
    /\ gcalls < MaxGridCalls
    /\ \E n \in 0..MaxGridLen : \E blocks \in GridLists(n) :
          LET r == grid_render(grid, gsheet, blocks)
          IN  /\ grid' = r.grid
              /\ gsheet' = r.sheet
    /\ gcalls' = gcalls + 1
    /\ UNCHANGED <<ginit, styled, nstyled, elems, last, protoVars, poolVars>>

GridSpecInit ==
    /\ elems = <<>>
    /\ rendererOf = OwnRenderers
    /\ last = NoOp
    /\ ProtoInit /\ PoolInit /\ GridStart

GridNext == GridRender

SpecGrid == GridSpecInit /\ [][GridNext]_vars

----------------------------------------------------------------------------
(* A client of create_style: style lists are resolved one after the other *)
(* on one ExcelCollectorRenderer.                                          *)

\* the styles the hooks nest blocks in, two header levels among them
StyleTags == {"h1", "h3", "list", "link", "quote", "paragraph"}

RECURSIVE StyleLists(_)
StyleLists(n) ==
    IF n = 0 THEN {<<>>}
    ELSE StyleLists(n - 1) \cup
         {Append(l, t) : l \in {q \in StyleLists(n - 1) : Len(q) = n - 1}, t \in StyleTags}

\* renderer.create_style(styles)
CreateStyle ==
    /\ nstyled < MaxStyleCalls
    /\ \E styles \in StyleLists(MaxStyles) :
          styled' = [styles |-> styles] @@ create_style(styles)
    /\ nstyled' = nstyled + 1
    /\ UNCHANGED <<grid, ginit, gsheet, gcalls, elems, last, protoVars, poolVars>>

StyleNext == CreateStyle

SpecStyle == Init /\ [][StyleNext]_vars

----------------------------------------------------------------------------
(* Properties *)

Range(f) == {f[k] : k \in DOMAIN f}
HasPrefix(q, pre) == Len(q) >= Len(pre) /\ SubSeq(q, 1, Len(pre)) = pre

\* the list_item hook was handed a placeholder that holds the item's own text
\* as its first block, then the blocks of a sub-list, and trailing text
ItemWithSubListAndTrail ==
    /\ last.op = "list_item"
    /\ ~IsNone(last.arg.block)
    /\ ~IsNone(last.arg.inline)
    /\ Len(Get(last.arg.block)) >= 2
    /\ \A k \in 2..Len(Get(last.arg.block)) :
          HasPrefix(elems[Get(last.arg.block)[k]].styles, <<"list_item", "list">>)
          \/ HasPrefix(elems[Get(last.arg.block)[k]].styles, <<"list">>)

\* C1: for a list item that received its own text, a nested list and trailing
\* text, the list_item hook returns the item's text block and every block of
\* the sub-list, followed by the trailing text as one new block of its own.
C1_ListItemKeepsEarlierBlocks ==
    ItemWithSubListAndTrail =>
        LET prior == Get(last.arg.block)
            ret == last.v.bc
        IN  /\ last.err = "none"
            /\ Len(ret) = Len(prior) + 1
            /\ SubSeq(ret, 1, Len(prior)) = prior
            /\ ret[Len(ret)] \notin Range(prior)
            /\ elems[ret[Len(ret)]].content = Get(last.arg.inline)
            /\ \A k \in 2..Len(prior) :
                  HasPrefix(elems[prior[k]].styles, <<"list_item", "list">>)

\* the case of C1 happened: the hook returned for such a list item
C1_Reached == ItemWithSubListAndTrail /\ last.err = "none"

BlockHookOps ==
    {"paragraph", "block_quote", "block_code", "list", "list_item", "header"}

\* C2: an unsupported construct is not an error: appending the None of its
\* hook leaves the pending inline and block of the collector unchanged, and a
\* block hook that is handed a placeholder which received nothing but such
\* None values does not raise; no block is emitted for the construct.
C2_UnsupportedIsNoError ==
    /\ last.op = "unsupported" =>
          /\ last.err = "none"
          /\ last.after = last.target
    /\ (last.op \in BlockHookOps /\ last.dropped
        /\ IsNone(last.arg.inline) /\ IsNone(last.arg.block)) =>
          /\ last.err = "none"
          /\ last.after = last.target

\* the case of C2 happened: a block hook received a placeholder whose only
\* content was unsupported
C2_Reached ==
    /\ last.op \in BlockHookOps
    /\ last.dropped
    /\ IsNone(last.arg.inline) /\ IsNone(last.arg.block)

----------------------------------------------------------------------------
(* Properties of the link registry *)

\* the distinct targets of a history of link hook calls, first seen first
RECURSIVE Distinct(_)
Distinct(h) ==
    IF h = <<>> THEN <<>>
    ELSE LET d == Distinct(SubSeq(h, 1, Len(h) - 1))
             t == h[Len(h)][1]
         IN  IF InList(d, t) THEN d ELSE Append(d, t)

\* the position of target t in the sequence d of distinct targets
PosIn(d, t) == CHOOSE i \in DOMAIN d : d[i] = t

NoDuplicates(l) == \A i, j \in DOMAIN l : l[i] = l[j] => i = j

\* C3: within one conversion the first occurrence of the k-th distinct link
\* target gets index k, counting from 1, every later occurrence of a target
\* gets the same index again, and the registry never holds a target twice.
C3_IndicesFirstSeen ==
    /\ \A conv \in Convs : \A k \in DOMAIN hist[conv] :
          hist[conv][k][2] = PosIn(Distinct(hist[conv]), hist[conv][k][1])
    /\ \A r \in Renderers : NoDuplicates(links[r])

\* the case of C3 happened: the link hook returned for two distinct targets
\* of one conversion
C3_Reached ==
    \E conv \in Convs :
        /\ Len(hist[conv]) = 2
        /\ hist[conv][1][1] # hist[conv][2][1]

\* the text of a reference row before the target
RefLabel(i) == "[" \o ToString(i) \o "] "

\* C4: the flush (terminate) emits no block when the registry is empty; when
\* it holds N >= 1 targets it emits 1 + N blocks, a blank block and then for
\* each index i of 1..N a block with the text "[i] " followed by the target
\* with the link marker; after the flush the registry is empty, so that a
\* flush that follows at once emits no block.
C4_FlushEmits ==
    last.op = "render" =>
        LET N == Len(last.reg)
            out == last.v.block
        IN  /\ IsNone(last.v.inline)
            /\ N = 0 => IsNone(out)
            /\ N >= 1 =>
                 /\ ~IsNone(out)
                 /\ Len(Get(out)) = 1 + N
                 /\ elems[Get(out)[1]].content = <<[text |-> "", markers |-> {}]>>
                 /\ \A i \in 1..N :
                       elems[Get(out)[1 + i]].content =
                          <<[text |-> RefLabel(i), markers |-> {}],
                            [text |-> last.reg[i], markers |-> {"l"}]>>
            /\ links[rendererOf[last.conv]] = <<>>

\* the case of C4 happened: a second flush for a collector whose first flush
\* emitted the rows of two targets
C4_Reached ==
    /\ last.op = "render"
    /\ flushes[last.conv] = 2
    /\ last.reg = <<>>
    /\ IsNone(last.v.block)
    /\ Cardinality({k \in DOMAIN last.v.bc :
                       elems[last.v.bc[k]].styles = <<"link">>}) = 2

\* C6: rendering a root collector that holds inline content and no block
\* yields one block with all its runs in order, followed only by the blocks
\* of the flush, and leaves no inline pending.
C6_InlineOnlyRoot ==
    (last.op = "render" /\ IsNone(last.arg.block) /\ ~IsNone(last.arg.inline)) =>
        LET handed == last.v.bc
            flushed == IF IsNone(last.v.block) THEN <<>> ELSE Get(last.v.block)
        IN  /\ Len(handed) = 1 + Len(flushed)
            /\ elems[handed[1]].content = Get(last.arg.inline)
            /\ elems[handed[1]].styles = <<>>
            /\ SubSeq(handed, 2, Len(handed)) = flushed
            /\ IsNone(last.after.inline)
            /\ last.after.block = Some(handed)

\* the case of C6 happened: a root of two runs or more was rendered and the
\* flush emitted reference rows
C6_Reached ==
    /\ last.op = "render"
    /\ IsNone(last.arg.block)
    /\ ~IsNone(last.arg.inline)
    /\ Len(Get(last.arg.inline)) >= 2
    /\ ~IsNone(last.v.block)

\* C8: the reference blocks emitted when a conversion is first rendered list
\* the targets its own link hooks registered, in first-seen order, and the
\* in-text indices of a conversion start at 1, whatever another conversion
\* registered before.
C8_NoLeakAcrossConversions ==
    /\ (last.op = "render" /\ flushes[last.conv] = 1) =>
          last.reg = Distinct(hist[last.conv])
    /\ \A conv \in Convs : hist[conv] # <<>> => hist[conv][1][2] = 1

\* the case of C8 happened: two conversions registered links and one of them
\* was rendered
C8_Reached ==
    /\ \A conv \in Convs : hist[conv] # <<>>
    /\ last.op = "render"

\* C9: the flush is called once per conversion, and in every block list that
\* is rendered the reference blocks are the last blocks and appear once.
C9_FlushOnceRefsLast ==
    /\ \A conv \in Convs : flushes[conv] <= 1
    /\ last.op = "render" =>
          LET handed == last.v.bc
          IN  /\ \A i, j \in DOMAIN handed :
                    (i < j /\ elems[handed[i]].styles = <<"link">>)
                        => elems[handed[j]].styles = <<"link">>
              /\ Cardinality({k \in DOMAIN handed :
                                 elems[handed[k]].styles = <<"link">>})
                    = Len(Distinct(hist[last.conv]))

\* the case of C9 happened: a collector with content and links was rendered
C9_Reached ==
    /\ last.op = "render"
    /\ ~IsNone(last.arg.block)
    /\ last.reg # <<>>

\* C10: the double_emphasis hook adds the bold marker, and no other marker,
\* to every run it wraps, and the runs of the collector it is appended to are
\* left as they were.
C10_StrongAddsBoldOnly ==
    (last.op = "double_emphasis" /\ last.err = "none") =>
        /\ Len(last.v.ic) = Len(Get(last.arg.inline))
        /\ \A k \in DOMAIN last.v.ic :
              /\ last.v.ic[k].text = Get(last.arg.inline)[k].text
              /\ last.v.ic[k].markers = Get(last.arg.inline)[k].markers \cup {"b"}
        /\ Get(last.after.inline) =
              (IF IsNone(last.target.inline) THEN <<>> ELSE Get(last.target.inline))
                 \o last.v.ic

\* the case of C10 happened: "Hello **world**": an unmarked run was followed
\* by a run wrapped by double_emphasis
C10_Reached ==
    /\ last.op = "double_emphasis"
    /\ last.err = "none"
    /\ ~IsNone(last.target.inline)
    /\ \A k \in DOMAIN Get(last.arg.inline) : Get(last.arg.inline)[k].markers = {}

----------------------------------------------------------------------------
(* Properties of the BlockCollector and ExcelCollectorRenderer classes *)

\* C7: nest(B) followed by nest(A) on a collector leaves the style list of
\* every element it holds equal to <<A, B>> followed by the styles the
\* element had before, however the collector was built, and changes neither
\* the number, the order nor the content of the elements.
C7_NestTwicePrepends ==
    (last.op = "nest" /\ last.prev.op = "nest" /\ last.i = last.prev.i) =>
        /\ pool = last.pool
        /\ \A k \in DOMAIN pool[last.i] :
              LET id == pool[last.i][k]
              IN  /\ elems[id].styles =
                        <<last.style, last.prev.style>> \o last.prev.before[id].styles
                  /\ elems[id].content = last.prev.before[id].content

\* the case of C7 happened: a collector that was merged into was nested twice
C7_Reached ==
    /\ last.op = "nest" /\ last.prev.op = "nest" /\ last.i = last.prev.i
    /\ Len(pool[last.i]) >= 2

\* C5: the k-th block an ExcelCollectorRenderer created at (r, c) renders,
\* over all its render calls, is written to the cell (r + k - 1, c), and no
\* other cell is written.
C5_RowsSequential ==
    /\ \A k \in DOMAIN gsheet.calls :
          gsheet.calls[k] = <<ginit[1] + k - 1, ginit[2]>>
    /\ DOMAIN gsheet.cells = Range(gsheet.calls)

\* the case of C5 happened: a second render call wrote a block
C5_Reached ==
    /\ gcalls >= 2
    /\ Len(gsheet.calls) >= 2
    /\ grid.row > ginit[1] + Len(gsheet.calls)

----------------------------------------------------------------------------
(* Properties of Collector.__iadd__ *)

\* a BlockCollector was appended to a collector and the append returned
BlockAppended == last.v.kind = "block" /\ last.err = "none"

\* C11: appending a BlockCollector B to a collector: with no block and an
\* inline I pending, the pending block becomes one block that wraps I
\* followed by the blocks of B, and no inline is pending; with nothing
\* pending, the pending block is the blocks of B; with a block pending, the
\* blocks of B follow the blocks that were there, in their order.
C11_AddBlockCases ==
    BlockAppended =>
        LET B == last.v.bc
            t == last.target
            a == last.after
        IN  /\ (IsNone(t.block) /\ ~IsNone(t.inline)) =>
                  /\ IsNone(a.inline)
                  /\ ~IsNone(a.block)
                  /\ Len(Get(a.block)) = 1 + Len(B)
                  /\ Get(a.block)[1] \notin Range(B)
                  /\ elems[Get(a.block)[1]].content = Get(t.inline)
                  /\ elems[Get(a.block)[1]].styles = <<>>
                  /\ SubSeq(Get(a.block), 2, 1 + Len(B)) = B
            /\ (IsNone(t.block) /\ IsNone(t.inline)) =>
                  /\ IsNone(a.inline)
                  /\ a.block = Some(B)
            /\ ~IsNone(t.block) =>
                  /\ a.block = Some(Get(t.block) \o B)

\* the case of C11 happened: a BlockCollector of two blocks was appended to a
\* collector that had an inline and no block pending
C11_Reached ==
    /\ BlockAppended
    /\ IsNone(last.target.block)
    /\ ~IsNone(last.target.inline)
    /\ Len(last.v.bc) >= 2

\* a Collector (last.arg) was appended to a collector
CollectorAppended == last.op = "merge" /\ last.err = "none"

\* the blocks a block append finds in the collector or makes of its inline
BlocksBefore(t) ==
    IF ~IsNone(t.block) THEN Len(Get(t.block))
    ELSE IF ~IsNone(t.inline) THEN 1 ELSE 0

\* C12: appending a Collector C to a collector: when C has a pending block,
\* its blocks are appended as by a block append and, when C has a pending
\* inline too, one block wrapping that inline follows them; when C has no
\* pending block its inline is appended as by an inline append, it becomes
\* the pending inline or follows the runs that were pending; an empty C
\* changes nothing.
C12_AddCollectorCases ==
    CollectorAppended =>
        LET C == last.arg
            t == last.target
            a == last.after
            pre == BlocksBefore(t)
        IN  /\ ~IsNone(C.block) =>
                  /\ ~IsNone(a.block)
                  /\ Len(Get(a.block)) =
                        pre + Len(Get(C.block)) + (IF IsNone(C.inline) THEN 0 ELSE 1)
                  /\ SubSeq(Get(a.block), pre + 1, pre + Len(Get(C.block))) = Get(C.block)
                  /\ ~IsNone(t.block) => SubSeq(Get(a.block), 1, pre) = Get(t.block)
                  /\ (IsNone(t.block) /\ ~IsNone(t.inline)) =>
                        /\ elems[Get(a.block)[1]].content = Get(t.inline)
                        /\ IsNone(a.inline)
                  /\ ~IsNone(C.inline) =>
                        LET w == Get(a.block)[Len(Get(a.block))]
                        IN  /\ w \notin Range(Get(C.block))
                            /\ elems[w].content = Get(C.inline)
                            /\ elems[w].styles = <<>>
            /\ (IsNone(C.block) /\ ~IsNone(C.inline)) =>
                  /\ a.block = t.block
                  /\ a.inline = Some((IF IsNone(t.inline) THEN <<>> ELSE Get(t.inline))
                                        \o Get(C.inline))
            /\ (IsNone(C.block) /\ IsNone(C.inline)) => a = t

\* the case of C12 happened: a Collector with a pending block and a pending
\* inline was appended to a collector that had blocks pending
C12_Reached ==
    /\ CollectorAppended
    /\ ~IsNone(last.arg.block)
    /\ ~IsNone(last.arg.inline)
    /\ ~IsNone(last.target.block)

\* C13: appending a value that is no BlockCollector, InlineCollector,
\* Collector or None raises an error and leaves the pending inline and the
\* pending block of the collector as they were; appending None never raises.
C13_OtherTypeRaises ==
    /\ last.op = "other" =>
          /\ last.err = "RuntimeError"
          /\ last.after = last.target
          /\ phase[last.conv] = "failed"
    /\ last.op = "unsupported" => last.err = "none"

\* the case of C13 happened: such a value was appended to a collector that
\* had an inline and a block pending
C13_Reached ==
    /\ last.op = "other"
    /\ ~IsNone(last.target.inline)
    /\ ~IsNone(last.target.block)

----------------------------------------------------------------------------
(* Properties of create_style and do_cell *)

\* the positions of a style list that hold one of the given tags
TagsAt(styles, tags) == {k \in DOMAIN styles : styles[k] \in tags}

Max(S) == CHOOSE x \in S : \A y \in S : y <= x

\* C14: for every style list, whatever was resolved before, create_style
\* returns an indent of 2 for each tag that is list, link or quote and no
\* alignment when there is none, the quote fill when and only when a quote
\* tag is in the list, and the header font of the last h1..h6 tag, or no
\* font when there is none.
C14_CreateStyle ==
    LET styles == styled.styles
        ind == TagsAt(styles, {"list", "link", "quote"})
        hs == TagsAt(styles, HeaderStyles)
    IN  /\ styled.alignment =
              (IF ind = {} THEN None ELSE Some([indent |-> 2 * Cardinality(ind)]))
        /\ styled.fill =
              (IF TagsAt(styles, {"quote"}) = {} THEN None ELSE Some(FILL_QUOTE))
        /\ styled.font =
              (IF hs = {} THEN None ELSE Some(FONTS(styles[Max(hs)])))

\* the case of C14 happened: a second list was resolved, with a quote tag
\* between two header tags
C14_Reached ==
    /\ nstyled = 2
    /\ styled.styles = <<"h1", "quote", "h3">>
    /\ styled.font = Some(HeaderFont(18))

\* the rows of the block list handed over by the last render whose block
\* carries the hrule style
HruleRows ==
    {k \in DOMAIN last.v.bc : "hrule" \in Range(elems[last.v.bc[k]].styles)}

\* C15: after a render, the cell of every block that carries the hrule
\* style has no font, the solid rule fill and empty text.
C15_HruleCellFilled ==
    last.op = "render" =>
        \A k \in HruleRows :
            LET cell == sheet[last.conv].cells[<<k, 1>>]
            IN  /\ IsNone(cell.font)
                /\ cell.fill = Some(FILL_HRULE)
                /\ \A i \in DOMAIN cell.rich_text : cell.rich_text[i].text = ""

\* the case of C15 happened: a document with an hrule after other content
\* was rendered
C15_Reached ==
    /\ last.op = "render"
    /\ \E k \in HruleRows : k >= 2

----------------------------------------------------------------------------
(* Content preservation *)

\* the texts of the runs of a block list, block after block
RECURSIVE RunTexts(_)
RunTexts(bc) ==
    IF bc = <<>> THEN <<>>
    ELSE RunTexts(SubSeq(bc, 1, Len(bc) - 1)) \o
         [k \in DOMAIN elems[bc[Len(bc)]].content |-> elems[bc[Len(bc)]].content[k].text]

\* the texts the text hook made, in the order of the document
DocTexts == [k \in 1..(MaxRuns + 1) |-> "t" \o ToString(k)]

\* the texts of the runs a collector holds, pending inline included
HeldTexts(c) ==
    (IF IsNone(c.block) THEN {} ELSE Range(RunTexts(Get(c.block)))) \cup
    (IF IsNone(c.inline) THEN {} ELSE {Get(c.inline)[k].text : k \in DOMAIN Get(c.inline)})

\* C16: when a collector is rendered, every run that was appended to it is
\* once in the block list handed to the ExcelCollectorRenderer, and the runs
\* are there in the order in which they were appended.
C16_ContentPreserved ==
    (last.op = "render" /\ flushes[last.conv] = 1) =>
        LET out == RunTexts(last.v.bc)
        IN  /\ \A x \in HeldTexts(last.arg) \cap Range(DocTexts) :
                  Cardinality({k \in DOMAIN out : out[k] = x}) = 1
            /\ \A i, j \in DOMAIN out :
                  (i < j /\ out[i] \in Range(DocTexts) /\ out[j] \in Range(DocTexts))
                      => PosIn(DocTexts, out[i]) < PosIn(DocTexts, out[j])

\* the case of C16 happened: a collector that received an inline after a
\* block was rendered
C16_Reached ==
    /\ last.op = "render"
    /\ flushes[last.conv] = 1
    /\ ~IsNone(last.arg.block)
    /\ ~IsNone(last.arg.inline)

====
